---- MODULE Spec2Model ----
(***************************************************************************)
(* Model of the Craigslist job scraper: the retry primitive (utils.retry), *)
(* the paginated generator scrape_jobs, the csv_out writer that wraps it,  *)
(* the filename search with its run guard (get_next_csv_filename) and the  *)
(* multi-domain driver scrape_all_jobs, scrape_job_details and the         *)
(* dispatcher CLScraper.run.                                               *)
(*                                                                         *)
(* A call self.scrape_jobs(domain) is one pipeline, identified by its      *)
(* domain.  The wrapper and the generator are coroutines of one thread:    *)
(* pc[p] is the position of that thread.  Files of the CSV directory whose *)
(* name is job_links<n>.csv are identified by n; job_links.csv is 0.       *)
(***************************************************************************)
EXTENDS Integers, Sequences, FiniteSets, TLC

\* ---------------------------------------------------------------- bounds
\* Page size of scrape_jobs (MAX_RESULTS = 100 in the source), scaled down.
MAX_RESULTS == 2
\* Number of pages the remote serves during one run of the program.
MaxPages == 3
\* Number of domains listed in the domains CSV files.
NDomains == 2
\* csv_out's rows_per_file ranges over 1..MaxRowsPerFile.
MaxRowsPerFile == 2
\* Files job_links.csv .. job_links<MaxOldIdx>.csv may exist before the run.
MaxOldIdx == 1
\* Answers prompt rejects before the operator types one of its options.
MaxAsk == 2
\* Length of the list of scrape types handed to the constructor.
MaxRequested == 2
\* Number of calls the Drive API answers during one poll.
MaxCalls == 8

\* ------------------------------------------------------ program constants
max_retries == 5
None == -1
IntensiveOpException == -2
\* gclient.py, lines 224 and 237: poll's budget, and what a refresh sets it to.
poll_retries == 5
retries_after_refresh == 2

VARIABLES
    files,          \* the CSV directory: file index -> [header, rows]
    is_interactive, \* CLScraper.is_interactive
    rows_per_file,  \* csv_out's rows_per_file
    all_domains,    \* scrape_all_jobs: the domains to scrape, in order
    dom,            \* scrape_all_jobs: number of domains started so far
    dpc,            \* scrape_all_jobs: "loop", "calling", "done" or "raised"
    pc,             \* per pipeline: position of the wrapper/generator thread
    wrapper,        \* per pipeline: locals of csv_out.wrapper
    gen,            \* per pipeline: locals of the generator scrape_jobs
    retry_i,        \* per pipeline: retry's attempt counter i
    exc,            \* per pipeline: the exception propagating, or "none"
    pages,          \* history: the pages fetched, [s, doc], in order
    emitted,        \* history: the rows yielded by the generator, in order
    skipped,        \* history: the run guard declined this pipeline
    dir0,           \* history: the directory when the pipeline was called
    answer,         \* prompt's ret at the run guard, or "none" when not prompted
    flushlog,       \* history: the file indices save_rows wrote, in order
    asked,          \* history: answers read by the prompt in progress
    served,         \* the remote: number of pages served so far
    detail_files,   \* the CSV directory: the job_details files, as files
    detail_page,    \* the remote: what the job page of each link lacks
    details,        \* locals of csv_out.wrapper and scrape_job_details
    run,            \* CLScraper.run: its position, self._scrape_types, its locals
    poll            \* GDriveClient.poll: its position, its locals, the access token

vars == <<files, is_interactive, rows_per_file, all_domains, dom, dpc, pc,
          wrapper, gen, retry_i, exc, pages, emitted, skipped, dir0, answer,
          flushlog, asked, served, detail_files, detail_page, details, run, poll>>

\* The state of a call of scrape_job_details.
dvars == <<detail_files, detail_page, details>>

Pipelines == 1..NDomains

\* ------------------------------------------------------------- documents
\* A listing of a result page: "link" has the map tag and the link anchor,
\* "nomap" has no map tag (it is filtered out), "broken" has the map tag
\* but no anchor (anchor_elem.get raises AttributeError).
Links(n) == [j \in 1..n |-> "link"]
NoMapFirst(n) == [j \in 1..n |-> IF j = 1 THEN "nomap" ELSE "link"]
BrokenFirst(n) == [j \in 1..n |-> IF j = 1 THEN "broken" ELSE "link"]

\* The pages the remote serves: of every length up to the page size, and a
\* short and a full one with a listing that is filtered out or broken.
ListingSeqs ==
    {Links(n) : n \in 0..MAX_RESULTS}
        \cup {NoMapFirst(n) : n \in {1, MAX_RESULTS}}
        \cup {BrokenFirst(n) : n \in {1, MAX_RESULTS}}

\* A response body.  raises: html.fromstring raises on it (an empty body,
\* which holds no listing).
EmptyBody == [raises |-> TRUE, listings |-> <<>>]
Documents == {[raises |-> FALSE, listings |-> l] : l \in ListingSeqs} \cup {EmptyBody}

Unbound == <<"unbound">>
NoRow == <<>>
Header == "Listing URL"

empty_rows == [j \in 1..rows_per_file |-> NoRow]

IdleWrapper == [filename |-> None, file_index |-> 0, rows_counter |-> 0, rows |-> <<>>]
IdleGen == [payload_s |-> 0, res |-> EmptyBody, listings |-> Unbound, li |-> 0,
            pending |-> "none"]

\* What a job page may lack: nothing, its title element, its map element.
PageKinds == {"complete", "no_title", "no_map"}

IdleDetails == [pc |-> "idle", wrapper |-> IdleWrapper, exc |-> "none", skipped |-> FALSE,
                todo |-> <<>>, order |-> <<>>, emitted |-> <<>>, answer |-> "none",
                asked |-> 0]

\* CLJobScraper.scrape_types.
scrape_types == <<"scrape_domains", "scrape_all_jobs", "scrape_job_details">>

\* run has not been called.
IdleRun == [pc |-> "idle", given |-> FALSE, requested |-> <<>>, scraping_to_do |-> <<>>,
            i |-> 0, started |-> <<>>, exc |-> "none"]

\* poll has not been called.  res is the status of the response bound, None
\* when there is none; calls counts the API calls of the poll and
\* after_refresh those made since the first token refresh.
IdlePoll == [pc |-> "idle", method_name |-> "get", retries |-> 0, res |-> None,
             breaking |-> FALSE, access_token |-> "stale", headers |-> "stale",
             exc |-> "none", calls |-> 0, refreshes |-> 0, after_refresh |-> 0]

\* ------------------------------------------------- get_next_csv_filename
\* res is the operator's answer at the prompt, read only when the prompt is
\* shown.  The result is a file index, or IntensiveOpException when raised.
RECURSIVE get_next_csv_filename_any(_, _, _, _)
get_next_csv_filename_any(dir, last_index, interactive, res) ==
    LET file_index == IF last_index = 0 THEN 0 ELSE last_index + 1
    IN  IF file_index \in DOMAIN dir
        THEN get_next_csv_filename_any(dir, IF file_index = 0 THEN 1 ELSE file_index,
                                       interactive, res)
        ELSE file_index

get_next_csv_filename_unchecked(dir, last_index, interactive, res) ==
    IF last_index = 0 THEN 0 ELSE last_index + 1

RECURSIVE get_next_csv_filename_guard_always(_, _, _, _)
get_next_csv_filename_guard_always(dir, last_index, interactive, res) ==
    LET file_index == IF last_index = 0 THEN 0 ELSE last_index + 1
    IN  IF file_index \in DOMAIN dir
        THEN IF interactive /\ res = "N"
             THEN IntensiveOpException
             ELSE get_next_csv_filename_guard_always(dir,
                        IF file_index = 0 THEN 1 ELSE file_index, interactive, res)
        ELSE file_index

RECURSIVE get_next_csv_filename(_, _, _, _)
get_next_csv_filename(dir, last_index, interactive, res) ==
    LET file_index == IF last_index = 0 THEN 0 ELSE last_index + 1
    IN  IF file_index \in DOMAIN dir
        THEN IF last_index = 0 /\ interactive /\ res = "N"
             THEN IntensiveOpException
             ELSE get_next_csv_filename(dir, IF file_index = 0 THEN 1 ELSE file_index,
                                        interactive, res)
        ELSE file_index

\* ----------------------------------------------------------------- prompt
\* The options of the run guard's prompt (line 79) and what the operator may
\* type: nothing, something else, or one of the options.
prompt_options == {"y", "N"}
Typed == {"", "x"} \cup prompt_options

\* Line 25 of utils.py: the answer is asked for again.
prompt_loops(ret, options) == ret = "" \/ ret \notin options

\* The prompt of the run guard is shown.
Prompted(dir, last_index, interactive) ==
    last_index = 0 /\ 0 \in DOMAIN dir /\ interactive

\* -------------------------------------------------------------- save_rows
\* The rows written: those before the first None.
RECURSIVE WrittenRows(_)
WrittenRows(rows) ==
    IF rows = <<>> \/ Head(rows) = NoRow THEN <<>>
    ELSE <<Head(rows)>> \o WrittenRows(Tail(rows))

save_rows(dir, rows, filename) ==
    [f \in DOMAIN dir \cup {filename} |->
        IF f = filename THEN [header |-> Header, rows |-> WrittenRows(rows)]
        ELSE dir[f]]

\* ------------------------------------------------------------------ retry
\* One iteration of retry's loop after i attempts: the outcome of partial()
\* is "ok", "Exception" or "KeyboardInterrupt".
retry_next_late(i, outcome) ==
    IF outcome = "ok" THEN "return"
    ELSE IF outcome = "Exception"
         THEN IF i + 1 = max_retries + 1 THEN "raise" ELSE "sleep"
         ELSE "raise"
retry_next_always_sleeps(i, outcome) ==
    IF outcome = "ok" THEN "return"
    ELSE IF outcome = "Exception" THEN "sleep" ELSE "raise"
retry_next(i, outcome) ==
    IF outcome = "ok" THEN "return"
    ELSE IF outcome = "Exception"
         THEN IF i + 1 = max_retries THEN "raise" ELSE "sleep"
         ELSE "raise"

retry_guard(i) == i < max_retries

\* Line 50, the bare raise: the exception handled is raised again.
retry_raise_other(e) == "Exception"
retry_raise(e) == e

\* ------------------------------------------------- wrapper, except clause
\* What leaves the wrapper's try statement when exception e reaches it:
\* IntensiveOpException is handled, anything else goes on after the finally
\* clause.
wrapper_except_none(e) == e
wrapper_except(e) == IF e = "IntensiveOpException" THEN "none" ELSE e

\* The finally clause: the rows left in the buffer are saved.
wrapper_finally_skip(dir, w) == dir
wrapper_finally_always(dir, w) == save_rows(dir, w.rows, w.filename)
wrapper_finally(dir, w) ==
    IF w.rows_counter # 0 THEN save_rows(dir, w.rows, w.filename) ELSE dir

\* Line 148: the buffer is full.
buffer_full_early(rows_counter, per_file) == (rows_counter + 1) % per_file = 0
buffer_full_late(rows_counter, per_file) == rows_counter > per_file
buffer_full(rows_counter, per_file) == rows_counter % per_file = 0

\* Line 166: the page was short, the pagination is over.
page_short_or_full(listings) == Len(listings) <= MAX_RESULTS
page_short(listings) == Len(listings) < MAX_RESULTS

\* ------------------------------------------------------------------- Init
OldFile(n) == [header |-> Header, rows |-> << <<0, 0, n>> >>]

\* The scraper and the job_links files before scrape_all_jobs is called.
InitJobs ==
    /\ \E S \in SUBSET (0..MaxOldIdx) : files = [n \in S |-> OldFile(n)]
    /\ is_interactive \in BOOLEAN
    /\ rows_per_file \in 1..MaxRowsPerFile
    /\ all_domains = [j \in 1..NDomains |-> j]
    /\ dom = 0
    /\ dpc = "loop"
    /\ pc = [p \in Pipelines |-> "idle"]
    /\ wrapper = [p \in Pipelines |-> IdleWrapper]
    /\ gen = [p \in Pipelines |-> IdleGen]
    /\ retry_i = [p \in Pipelines |-> 0]
    /\ exc = [p \in Pipelines |-> "none"]
    /\ pages = [p \in Pipelines |-> <<>>]
    /\ emitted = [p \in Pipelines |-> <<>>]
    /\ skipped = [p \in Pipelines |-> FALSE]
    /\ dir0 = [p \in Pipelines |-> <<>>]
    /\ answer = [p \in Pipelines |-> "none"]
    /\ flushlog = [p \in Pipelines |-> <<>>]
    /\ asked = [p \in Pipelines |-> 0]
    /\ served = 0

Init ==
    /\ InitJobs
    /\ detail_files = <<>>
    /\ detail_page = [n \in 0..MaxOldIdx |-> "complete"]
    /\ details = IdleDetails
    /\ run = IdleRun
    /\ poll = IdlePoll

config == <<is_interactive, rows_per_file, all_domains>>
history == <<pages, emitted, skipped, dir0, answer, flushlog, asked, served>>

\* ---------------------------------------------------------------- driver
\* scrape_all_jobs, one iteration of "for domain in all_domains":
\* self.scrape_jobs(domain) enters csv_out.wrapper, which sets its locals.
\* The history kept is that of the call in progress.
Call(p) ==
    /\ dpc = "loop"
    /\ dom < Len(all_domains)
    /\ p = all_domains[dom + 1]
    /\ dom' = dom + 1
    /\ dpc' = "calling"
    /\ pc' = [pc EXCEPT ![p] = "open"]
    /\ wrapper' = [wrapper EXCEPT ![p] =
            [filename |-> None, file_index |-> 0, rows_counter |-> 0, rows |-> empty_rows]]
    /\ dir0' = [q \in Pipelines |-> IF q = p THEN files ELSE <<>>]
    /\ pages' = [q \in Pipelines |-> <<>>]
    /\ emitted' = [q \in Pipelines |-> <<>>]
    /\ flushlog' = [q \in Pipelines |-> <<>>]
    /\ UNCHANGED <<files, config, dvars, run, poll, gen, retry_i, exc, skipped, answer, asked, served>>

\* scrape_all_jobs: the loop is over.
Done ==
    /\ dpc = "loop"
    /\ dom = Len(all_domains)
    /\ dpc' = "done"
    /\ UNCHANGED <<files, config, dvars, run, poll, dom, pc, wrapper, gen, retry_i, exc, history>>

\* --------------------------------------------------------------- wrapper
\* Lines 139-140 once the prompt, if any, has returned res: the first
\* filename.  A raised IntensiveOpException is caught by the except clause
\* (rows_counter = 0) and the finally clause follows.  Otherwise the for
\* statement starts the generator, which runs to its first retry call
\* (scrape_jobs lines 138-143).
Guarded(p, res) ==
    LET r == get_next_csv_filename(files, wrapper[p].file_index, is_interactive, res)
    IN  IF r = IntensiveOpException
        THEN /\ wrapper' = [wrapper EXCEPT ![p].rows_counter = 0]
             /\ skipped' = [skipped EXCEPT ![p] = TRUE]
             /\ exc' = [exc EXCEPT ![p] = wrapper_except("IntensiveOpException")]
             /\ pc' = [pc EXCEPT ![p] = "finally"]
             /\ UNCHANGED <<gen, retry_i>>
        ELSE /\ wrapper' = [wrapper EXCEPT ![p].filename = r,
                                           ![p].file_index = @ + 1]
             /\ gen' = [gen EXCEPT ![p] = [IdleGen EXCEPT !.payload_s = 1]]
             /\ retry_i' = [retry_i EXCEPT ![p] = 0]
             /\ pc' = [pc EXCEPT ![p] = "fetch"]
             /\ UNCHANGED <<skipped, exc>>

\* Line 139 up to the prompt (ret = "", utils.py line 18), or through to the
\* generator's first retry call when the run guard does not prompt.
Open(p) ==
    /\ pc[p] = "open"
    /\ IF Prompted(files, wrapper[p].file_index, is_interactive)
       THEN /\ pc' = [pc EXCEPT ![p] = "prompt"]
            /\ answer' = [answer EXCEPT ![p] = ""]
            /\ UNCHANGED <<wrapper, gen, retry_i, skipped, exc>>
       ELSE /\ Guarded(p, "none")
            /\ answer' = [answer EXCEPT ![p] = "none"]
    /\ UNCHANGED <<files, config, dvars, run, poll, dom, dpc, pages, emitted, dir0, flushlog, asked,
                   served>>

\* utils.py lines 25-28: one raw_input of the prompt.  An answer that is
\* empty or not an option is asked for again; an option is returned and
\* get_next_csv_filename goes on with it (lines 80-85).
PromptInput(p) ==
    /\ pc[p] = "prompt"
    /\ \E typed \in Typed :
          /\ answer' = [answer EXCEPT ![p] = typed]
          /\ IF prompt_loops(typed, prompt_options)
             THEN /\ asked[p] < MaxAsk
                  /\ asked' = [asked EXCEPT ![p] = @ + 1]
                  /\ UNCHANGED <<pc, wrapper, gen, retry_i, skipped, exc>>
             ELSE /\ Guarded(p, typed)
                  /\ asked' = [asked EXCEPT ![p] = 0]
    /\ UNCHANGED <<files, config, dvars, run, poll, dom, dpc, pages, emitted, dir0, flushlog, served>>

\* An exception e leaves the try block of the wrapper: the finally clause runs.
Propagate(p, e) ==
    /\ pc' = [pc EXCEPT ![p] = "finally"]
    /\ exc' = [exc EXCEPT ![p] = wrapper_except(e)]

\* ----------------------------------------------------------------- retry
\* One iteration of retry's loop: i += 1, partial() is called.  On success
\* retry returns the response; the generator goes on (after the fetch of line
\* 175 an exception pending in the finally clause is re-raised).
Attempt(p) ==
    /\ pc[p] = "fetch"
    /\ retry_guard(retry_i[p])
    /\ \/ /\ served < MaxPages
          /\ served' = served + 1
          /\ retry_next(retry_i[p], "ok") = "return"
          /\ \E doc \in Documents :
                /\ gen' = [gen EXCEPT ![p].res = doc]
                /\ pages' = [pages EXCEPT ![p] = Append(@, [s |-> gen[p].payload_s, doc |-> doc])]
          /\ IF gen[p].pending = "none"
             THEN /\ pc' = [pc EXCEPT ![p] = "parse"]
                  /\ UNCHANGED exc
             ELSE Propagate(p, gen[p].pending)
       \/ /\ retry_next(retry_i[p], "Exception") = "sleep"
          /\ pc' = [pc EXCEPT ![p] = "retry_sleep"]
          /\ UNCHANGED <<gen, pages, exc, served>>
       \/ /\ retry_next(retry_i[p], "Exception") = "raise"
          /\ Propagate(p, retry_raise("RequestException"))
          /\ UNCHANGED <<gen, pages, served>>
    /\ retry_i' = [retry_i EXCEPT ![p] = @ + 1]
    /\ UNCHANGED <<files, config, dvars, run, poll, dom, dpc, wrapper, emitted, skipped, dir0, answer,
                   flushlog, asked>>

\* time.sleep(sleep) of retry, then the next iteration.
RetrySleep(p) ==
    /\ pc[p] = "retry_sleep"
    /\ pc' = [pc EXCEPT ![p] = "fetch"]
    /\ UNCHANGED <<files, config, dvars, run, poll, dom, dpc, wrapper, gen, retry_i, exc, history>>

\* ------------------------------------------------------------- generator
\* Lines 148-155: parse the response.  An exception of html.fromstring is
\* caught and logged, listings keeps its previous binding.  (retry's frame,
\* left at the return of line 143 or 175, is dropped here.)
Parse(p) ==
    /\ pc[p] = "parse"
    /\ IF gen[p].res.raises
       THEN /\ pc' = [pc EXCEPT ![p] = "g_finally"]
            /\ UNCHANGED gen
       ELSE /\ gen' = [gen EXCEPT ![p].listings = gen[p].res.listings, ![p].li = 1]
            /\ pc' = [pc EXCEPT ![p] =
                    IF gen[p].res.listings = <<>> THEN "g_finally" ELSE "listing"]
    /\ retry_i' = [retry_i EXCEPT ![p] = 0]
    /\ UNCHANGED <<files, config, dvars, run, poll, dom, dpc, wrapper, exc, history>>

\* Lines 156-162 and the wrapper's lines 145-148: one listing.  A yielded row
\* is stored by the wrapper, which then either flushes or resumes the generator.
Listing(p) ==
    /\ pc[p] = "listing"
    /\ LET g == gen[p]
           w == wrapper[p]
           row == <<p, g.payload_s, g.li>>
       IN  IF g.li > Len(g.listings)
           THEN /\ pc' = [pc EXCEPT ![p] = "g_finally"]
                /\ UNCHANGED <<gen, wrapper, emitted>>
           ELSE IF g.listings[g.li] = "nomap"
           THEN /\ gen' = [gen EXCEPT ![p].li = @ + 1]
                /\ UNCHANGED <<pc, wrapper, emitted>>
           ELSE IF g.listings[g.li] = "broken"
           THEN /\ pc' = [pc EXCEPT ![p] = "g_finally"]
                /\ UNCHANGED <<gen, wrapper, emitted>>
           ELSE /\ gen' = [gen EXCEPT ![p].li = @ + 1]
                /\ emitted' = [emitted EXCEPT ![p] = Append(@, row)]
                /\ wrapper' = [wrapper EXCEPT
                        ![p].rows = [w.rows EXCEPT ![w.rows_counter + 1] = row],
                        ![p].rows_counter = @ + 1]
                /\ pc' = [pc EXCEPT ![p] =
                        IF buffer_full(w.rows_counter + 1, rows_per_file)
                        THEN "save" ELSE "listing"]
    /\ UNCHANGED <<files, config, dvars, run, poll, dom, dpc, retry_i, exc, pages, skipped, dir0, answer,
                   flushlog, asked, served>>

\* Lines 165-170, the finally clause of the page: stop on a short page, else
\* advance the offset.  A break discards a pending exception.
GFinally(p) ==
    /\ pc[p] = "g_finally"
    /\ IF gen[p].listings = Unbound
       THEN /\ Propagate(p, "UnboundLocalError")
            /\ UNCHANGED gen
       ELSE IF page_short(gen[p].listings)
       THEN /\ pc' = [pc EXCEPT ![p] = "finally"]
            /\ UNCHANGED <<gen, exc>>
       ELSE /\ gen' = [gen EXCEPT ![p].payload_s = @ + MAX_RESULTS]
            /\ pc' = [pc EXCEPT ![p] = "throttle"]
            /\ UNCHANGED exc
    /\ UNCHANGED <<files, config, dvars, run, poll, dom, dpc, wrapper, retry_i, history>>

\* Lines 172-175: the throttling sleep, then retry is entered.
Throttle(p) ==
    /\ pc[p] = "throttle"
    /\ pc' = [pc EXCEPT ![p] = "fetch"]
    /\ retry_i' = [retry_i EXCEPT ![p] = 0]
    /\ UNCHANGED <<files, config, dvars, run, poll, dom, dpc, wrapper, gen, exc, history>>

\* ------------------------------------------------- wrapper, capacity flush
\* Line 149.
Save(p) ==
    /\ pc[p] = "save"
    /\ files' = save_rows(files, wrapper[p].rows, wrapper[p].filename)
    /\ flushlog' = [flushlog EXCEPT ![p] = Append(@, wrapper[p].filename)]
    /\ pc' = [pc EXCEPT ![p] = "next"]
    /\ UNCHANGED <<config, dvars, run, poll, dom, dpc, wrapper, gen, retry_i, exc, pages, emitted, skipped,
                   dir0, answer, asked, served>>

\* Lines 152-153.
NextFilename(p) ==
    /\ pc[p] = "next"
    /\ wrapper' = [wrapper EXCEPT
            ![p].filename = get_next_csv_filename(files, wrapper[p].file_index,
                                                  is_interactive, "N"),
            ![p].file_index = @ + 1]
    /\ pc' = [pc EXCEPT ![p] = "reset"]
    /\ UNCHANGED <<files, config, dvars, run, poll, dom, dpc, gen, retry_i, exc, history>>

\* Lines 156-157, then the generator is resumed.
Reset(p) ==
    /\ pc[p] = "reset"
    /\ wrapper' = [wrapper EXCEPT ![p].rows = empty_rows, ![p].rows_counter = 0]
    /\ pc' = [pc EXCEPT ![p] = "listing"]
    /\ UNCHANGED <<files, config, dvars, run, poll, dom, dpc, gen, retry_i, exc, history>>

\* Lines 163-166, the finally clause, and the return to scrape_all_jobs: an
\* exception other than IntensiveOpException goes on to the caller, whose loop
\* has no handler.  The frames of the wrapper and of the generator are gone.
Finally(p) ==
    /\ pc[p] = "finally"
    /\ files' = wrapper_finally(files, wrapper[p])
    /\ flushlog' = [flushlog EXCEPT ![p] =
            IF wrapper_finally(files, wrapper[p]) # files \/ wrapper[p].rows_counter # 0
            THEN Append(@, wrapper[p].filename) ELSE @]
    /\ pc' = [pc EXCEPT ![p] = IF exc[p] = "none" THEN "returned" ELSE "raised"]
    /\ dpc' = IF exc[p] = "none" THEN "loop" ELSE "raised"
    /\ wrapper' = [wrapper EXCEPT ![p] = IdleWrapper]
    /\ gen' = [gen EXCEPT ![p] = IdleGen]
    /\ retry_i' = [retry_i EXCEPT ![p] = 0]
    /\ UNCHANGED <<config, dvars, run, poll, dom, exc, pages, emitted, skipped, dir0, answer, asked,
                   served>>

\* ------------------------------------------------------------- interrupt
\* KeyboardInterrupt is delivered while the thread is inside a call: the
\* prompt, requests.get, time.sleep, html.fromstring, get_next_csv_filename.
\* It is no Exception: retry and the generator's except clause let it pass.
Interrupt(p) ==
    /\ \/ /\ pc[p] = "prompt"
          /\ Propagate(p, "KeyboardInterrupt")
          /\ UNCHANGED <<gen, retry_i>>
       \/ /\ pc[p] = "fetch"
          /\ retry_next(retry_i[p], "KeyboardInterrupt") = "raise"
          /\ Propagate(p, "KeyboardInterrupt")
          /\ UNCHANGED <<gen, retry_i>>
       \/ /\ pc[p] \in {"retry_sleep", "throttle", "next"}
          /\ Propagate(p, "KeyboardInterrupt")
          /\ UNCHANGED <<gen, retry_i>>
       \/ /\ pc[p] = "parse"
          /\ gen' = [gen EXCEPT ![p].pending = "KeyboardInterrupt"]
          /\ pc' = [pc EXCEPT ![p] = "g_finally"]
          /\ retry_i' = [retry_i EXCEPT ![p] = 0]
          /\ UNCHANGED exc
    /\ UNCHANGED <<files, config, dvars, run, poll, dom, dpc, wrapper, history>>

Step(p) ==
    \/ Call(p)
    \/ Open(p)
    \/ PromptInput(p)
    \/ Attempt(p)
    \/ RetrySleep(p)
    \/ Parse(p)
    \/ Listing(p)
    \/ GFinally(p)
    \/ Throttle(p)
    \/ Save(p)
    \/ NextFilename(p)
    \/ Reset(p)
    \/ Finally(p)
    \/ Interrupt(p)

Next == Done \/ \E p \in Pipelines : Step(p)

Spec == Init /\ [][Next]_vars

\* ==================================================== scrape_job_details
\* A call self.scrape_job_details(): csv_out.wrapper with root "job_details"
\* around the generator that reads the job_links files.
jvars == <<files, config, dom, dpc, pc, wrapper, gen, retry_i, exc, history>>

\* The link of a row of a job_links file (row[0]).
LinkOf(row) == row[3]

\* scrape_single_job_details: the tuple returned for a page with its title
\* and map elements; None (the function ends without a return) after
\* MissingDataException.
scrape_single_job_details(link, kind) ==
    IF kind = "no_title" THEN NoRow
    ELSE IF kind = "no_map" THEN NoRow
    ELSE <<"details", link>>

\* os.listdir: the files in some order.
Orders(S) ==
    {sq \in [1..Cardinality(S) -> S] : \A i, j \in 1..Cardinality(S) : sq[i] = sq[j] => i = j}

InitDetails ==
    /\ InitJobs
    /\ \E S \in SUBSET (0..MaxOldIdx) : detail_files = [n \in S |-> OldFile(n)]
    /\ detail_page \in [0..MaxOldIdx -> PageKinds]
    /\ details = IdleDetails
    /\ run = IdleRun
    /\ poll = IdlePoll

\* The call enters csv_out.wrapper, lines 131-136.
DetailsCall ==
    /\ details.pc = "idle"
    /\ details' = [IdleDetails EXCEPT
            !.pc = "open",
            !.wrapper = [filename |-> None, file_index |-> 0, rows_counter |-> 0,
                         rows |-> empty_rows]]
    /\ UNCHANGED <<jvars, run, poll, detail_files, detail_page>>

\* Lines 139-144 once the prompt, if any, has returned res: the first
\* filename, with the run guard, then the generator is started.
DetailsGuarded(res) ==
    LET r == get_next_csv_filename(detail_files, details.wrapper.file_index,
                                   is_interactive, res)
    IN  IF r = IntensiveOpException
        THEN details' = [details EXCEPT
                !.wrapper.rows_counter = 0,
                !.skipped = TRUE,
                !.exc = wrapper_except("IntensiveOpException"),
                !.pc = "finally",
                !.answer = res,
                !.asked = 0]
        ELSE details' = [details EXCEPT
                !.wrapper.filename = r,
                !.wrapper.file_index = @ + 1,
                !.pc = "start",
                !.answer = res,
                !.asked = 0]

DetailsOpen ==
    /\ details.pc = "open"
    /\ IF Prompted(detail_files, details.wrapper.file_index, is_interactive)
       THEN details' = [details EXCEPT !.pc = "prompt", !.answer = ""]
       ELSE DetailsGuarded("none")
    /\ UNCHANGED <<jvars, run, poll, detail_files, detail_page>>

\* utils.py lines 25-28: one raw_input of the prompt.
DetailsPrompt ==
    /\ details.pc = "prompt"
    /\ \E typed \in Typed :
          IF prompt_loops(typed, prompt_options)
          THEN /\ details.asked < MaxAsk
               /\ details' = [details EXCEPT !.answer = typed, !.asked = @ + 1]
          ELSE DetailsGuarded(typed)
    /\ UNCHANGED <<jvars, run, poll, detail_files, detail_page>>

\* scrape_job_details lines 60-66: the job_links files are listed; with none
\* the generator ends.
DetailsStart ==
    /\ details.pc = "start"
    /\ IF DOMAIN files = {}
       THEN details' = [details EXCEPT !.pc = "finally"]
       ELSE \E order \in Orders(DOMAIN files) :
                details' = [details EXCEPT !.todo = order, !.order = order, !.pc = "row"]
    /\ UNCHANGED <<jvars, run, poll, detail_files, detail_page>>

\* Lines 67-72: the next file is opened and its first row read.  The call of
\* line 72 names scrape_single_job_details without self: the name is neither
\* local nor global, NameError is raised and leaves the generator.  Lines
\* 73-77 are never reached.
DetailsRow ==
    /\ details.pc = "row"
    /\ IF files[Head(details.todo)].rows = <<>>
       THEN details' = [details EXCEPT
                !.todo = Tail(@),
                !.pc = IF Tail(details.todo) = <<>> THEN "finally" ELSE "row"]
       ELSE details' = [details EXCEPT
                !.exc = wrapper_except("NameError"),
                !.pc = "finally"]
    /\ UNCHANGED <<jvars, run, poll, detail_files, detail_page>>

\* KeyboardInterrupt at the prompt of the run guard.
DetailsInterrupt ==
    /\ details.pc = "prompt"
    /\ details' = [details EXCEPT !.exc = wrapper_except("KeyboardInterrupt"),
                                  !.pc = "finally"]
    /\ UNCHANGED <<jvars, run, poll, detail_files, detail_page>>

\* Lines 163-166 and the return to the caller.
DetailsFinally ==
    /\ details.pc = "finally"
    /\ detail_files' = wrapper_finally(detail_files, details.wrapper)
    /\ details' = [details EXCEPT
            !.pc = IF details.exc = "none" THEN "returned" ELSE "raised",
            !.wrapper = IdleWrapper]
    /\ UNCHANGED <<jvars, run, poll, detail_page>>

NextDetails ==
    \/ DetailsCall
    \/ DetailsOpen
    \/ DetailsPrompt
    \/ DetailsStart
    \/ DetailsRow
    \/ DetailsInterrupt
    \/ DetailsFinally

SpecDetails == InitDetails /\ [][NextDetails]_vars

\* ================================================= concurrent pipelines
\* The calls self.scrape_jobs(domain) of all domains made at once, each in a
\* thread of its own, with no lock.  A thread gives way to another one only
\* inside requests.get and time.sleep (and before it started, and after it
\* ended); no interrupt is delivered and nobody is there to be prompted.
Suspended(q) == pc[q] \in {"idle", "fetch", "retry_sleep", "throttle", "returned", "raised"}

\* No other thread is running.
Alone(p) == \A q \in Pipelines \ {p} : Suspended(q)

InitConcurrent ==
    /\ Init
    /\ ~is_interactive

\* self.scrape_jobs(domain) enters csv_out.wrapper, lines 131-136.
ConcCall(p) ==
    /\ Alone(p)
    /\ pc[p] = "idle"
    /\ pc' = [pc EXCEPT ![p] = "open"]
    /\ wrapper' = [wrapper EXCEPT ![p] =
            [filename |-> None, file_index |-> 0, rows_counter |-> 0, rows |-> empty_rows]]
    /\ dir0' = [dir0 EXCEPT ![p] = files]
    /\ UNCHANGED <<files, config, dvars, run, poll, dom, dpc, gen, retry_i, exc, pages, emitted,
                   skipped, answer, flushlog, asked, served>>

\* The steps of a thread, taken while no other thread is running.
ConcOpen(p) == Alone(p) /\ Open(p)
ConcAttempt(p) == Alone(p) /\ Attempt(p)
ConcRetrySleep(p) == Alone(p) /\ RetrySleep(p)
ConcParse(p) == Alone(p) /\ Parse(p)
ConcListing(p) == Alone(p) /\ Listing(p)
ConcGFinally(p) == Alone(p) /\ GFinally(p)
ConcThrottle(p) == Alone(p) /\ Throttle(p)
ConcSave(p) == Alone(p) /\ Save(p)
ConcNextFilename(p) == Alone(p) /\ NextFilename(p)
ConcReset(p) == Alone(p) /\ Reset(p)
ConcFinally(p) == Alone(p) /\ Finally(p)

ConcStep(p) ==
    \/ ConcCall(p)
    \/ ConcOpen(p)
    \/ ConcAttempt(p)
    \/ ConcRetrySleep(p)
    \/ ConcParse(p)
    \/ ConcListing(p)
    \/ ConcGFinally(p)
    \/ ConcThrottle(p)
    \/ ConcSave(p)
    \/ ConcNextFilename(p)
    \/ ConcReset(p)
    \/ ConcFinally(p)

NextConcurrent == \E p \in Pipelines : ConcStep(p)

SpecConcurrent == InitConcurrent /\ [][NextConcurrent]_vars

\* ============================================================ CLScraper.run
\* run of cl_scraper.py, lines 192-204.  run.requested is self._scrape_types
\* when it is a list (run.given), None otherwise; run.started is the scrape
\* methods called so far, in order.  What a scrape
\* method does to the files is the subject of Spec and SpecDetails; here a
\* call of one is over when it returns or lets an exception out.

\* What may be asked for with --type: the scrape types, or another attribute.
TypeNames == {scrape_types[k] : k \in DOMAIN scrape_types} \cup {"scrape_jobs"}

Requests == UNION {[1..n -> TypeNames] : n \in 0..MaxRequested}

\* The exceptions a scrape method lets out.
ScrapeExceptions == {"RequestException", "UnboundLocalError", "NameError",
                     "KeyboardInterrupt"}

\* Line 197: the requested types that are no scrape type.
leftovers_none(requested) == {}
leftovers(requested) ==
    {requested[k] : k \in DOMAIN requested} \ {scrape_types[k] : k \in DOMAIN scrape_types}

InitRun ==
    /\ InitJobs
    /\ detail_files = <<>>
    /\ detail_page = [n \in 0..MaxOldIdx |-> "complete"]
    /\ details = IdleDetails
    /\ poll = IdlePoll
    /\ \/ run = [IdleRun EXCEPT !.pc = "init"]
       \/ \E r \in Requests :
             run = [IdleRun EXCEPT !.pc = "init", !.given = TRUE, !.requested = r]

\* Lines 194-201: what is to be done, or ValueError.
RunCheck ==
    /\ run.pc = "init"
    /\ run' = IF ~run.given \/ run.requested = <<>>
              THEN [run EXCEPT !.scraping_to_do = scrape_types, !.pc = "loop"]
              ELSE IF leftovers(run.requested) # {}
              THEN [run EXCEPT !.pc = "raised", !.exc = "ValueError"]
              ELSE [run EXCEPT !.scraping_to_do = run.requested, !.pc = "loop"]
    /\ UNCHANGED <<jvars, dvars, poll>>

\* Lines 203-204: the next scrape method is called.
RunCall ==
    /\ run.pc = "loop"
    /\ run.i < Len(run.scraping_to_do)
    /\ run' = [run EXCEPT !.pc = "calling",
                          !.started = Append(@, run.scraping_to_do[run.i + 1])]
    /\ UNCHANGED <<jvars, dvars, poll>>

\* Line 204: the scrape method returns, the loop goes on.
RunReturn ==
    /\ run.pc = "calling"
    /\ run' = [run EXCEPT !.pc = "loop", !.i = @ + 1]
    /\ UNCHANGED <<jvars, dvars, poll>>

\* Line 204: the scrape method lets an exception out; run has no handler.
RunRaise ==
    /\ run.pc = "calling"
    /\ \E e \in ScrapeExceptions : run' = [run EXCEPT !.pc = "raised", !.exc = e]
    /\ UNCHANGED <<jvars, dvars, poll>>

\* The loop is over, run returns.
RunDone ==
    /\ run.pc = "loop"
    /\ run.i = Len(run.scraping_to_do)
    /\ run' = [run EXCEPT !.pc = "returned"]
    /\ UNCHANGED <<jvars, dvars, poll>>

NextRun == RunCheck \/ RunCall \/ RunReturn \/ RunRaise \/ RunDone

SpecRun == InitRun /\ [][NextRun]_vars

\* ========================================================= GDriveClient.poll
\* poll of gclient.py, lines 196-246, with the refresh_token it calls (lines
\* 145-164).  The API answers each call with a status or the call raises.

\* The HTTP methods poll may be asked for: those it supports, and another.
MethodNames == {"get", "post", "put", "delete"}

\* The status codes of the API's responses: success, unauthorized, another.
ApiStatuses == {200, 401, 500}

pvars == <<jvars, dvars, run>>

InitPoll ==
    /\ InitJobs
    /\ detail_files = <<>>
    /\ detail_page = [n \in 0..MaxOldIdx |-> "complete"]
    /\ details = IdleDetails
    /\ run = IdleRun
    /\ \E m \in MethodNames : poll = [IdlePoll EXCEPT !.pc = "init", !.method_name = m]

\* Lines 207-224.  The message of line 208 applies % to a string without a
\* conversion: TypeError is raised where ValueError is meant.
PollCheck ==
    /\ poll.pc = "init"
    /\ poll' = IF poll.method_name \notin {"get", "post", "put"}
               THEN [poll EXCEPT !.pc = "raised", !.exc = "TypeError"]
               ELSE [poll EXCEPT !.pc = "loop", !.headers = poll.access_token,
                                 !.res = None, !.retries = poll_retries]
    /\ UNCHANGED pvars

\* Line 225: the loop's test.
PollTest ==
    /\ poll.pc = "loop"
    /\ poll' = [poll EXCEPT !.pc = IF poll.retries > 0 THEN "call" ELSE "after"]
    /\ UNCHANGED pvars

\* Lines 227-230: the API is called; it answers, or requests raises.
PollCall ==
    /\ poll.pc = "call"
    /\ poll.calls < MaxCalls
    /\ \/ \E status \in ApiStatuses :
             poll' = [poll EXCEPT
                   !.calls = @ + 1,
                   !.after_refresh = IF poll.refreshes > 0 THEN @ + 1 ELSE @,
                   !.res = status,
                   !.breaking = status = 200,
                   !.pc = IF status = 401 THEN "refresh" ELSE "finally"]
       \/ poll' = [poll EXCEPT
                   !.calls = @ + 1,
                   !.after_refresh = IF poll.refreshes > 0 THEN @ + 1 ELSE @,
                   !.pc = "sleep"]
    /\ UNCHANGED pvars

\* Lines 231-237: refresh_token, which raises when the token endpoint does not
\* answer 200 or the tokens file cannot be written; then the headers are
\* rebuilt and the budget is set.
PollRefresh ==
    /\ poll.pc = "refresh"
    /\ \/ poll' = [poll EXCEPT !.access_token = "fresh", !.headers = "fresh",
                               !.refreshes = @ + 1,
                               !.retries = retries_after_refresh, !.pc = "finally"]
       \/ poll' = [poll EXCEPT !.pc = "sleep"]
    /\ UNCHANGED pvars

\* Lines 238-239: the except clause.
PollSleep ==
    /\ poll.pc = "sleep"
    /\ poll' = [poll EXCEPT !.pc = "finally"]
    /\ UNCHANGED pvars

\* Lines 240-241: the finally clause, then the break or the next iteration.
PollFinally ==
    /\ poll.pc = "finally"
    /\ poll' = [poll EXCEPT !.retries = @ - 1,
                            !.pc = IF poll.breaking THEN "after" ELSE "loop"]
    /\ UNCHANGED pvars

\* Lines 243-246.
PollAfter ==
    /\ poll.pc = "after"
    /\ poll' = IF poll.res = None
               THEN [poll EXCEPT !.pc = "raised", !.exc = "Exception"]
               ELSE [poll EXCEPT !.pc = "returned"]
    /\ UNCHANGED pvars

NextPoll ==
    PollCheck \/ PollTest \/ PollCall \/ PollRefresh \/ PollSleep \/ PollFinally
        \/ PollAfter

SpecPoll == InitPoll /\ [][NextPoll]_vars

\* =================================================================== claims
\* p is the pipeline whose call is in progress or was made last: the history
\* variables describe its call.
Current(p) == dom >= 1 /\ all_domains[dom] = p

\* The call of p is over.
Exited(p) == pc[p] \in {"returned", "raised"}

CeilDiv(n, c) == (n + c - 1) \div c

\* The data rows of the files named by log, concatenated in that order.
RECURSIVE ConcatLog(_, _)
ConcatLog(dir, log) ==
    IF log = <<>> THEN <<>> ELSE dir[Head(log)].rows \o ConcatLog(dir, Tail(log))

Range(f) == {f[x] : x \in DOMAIN f}

\* C1: from an empty directory, a stream of N records and a capacity C give
\* exactly ceil(N / C) batch files, all full except possibly the last, whose
\* data rows concatenated in creation order are the stream.
C1_BatchesEqualStream ==
    \A p \in Pipelines :
        (Current(p) /\ Exited(p) /\ exc[p] # "KeyboardInterrupt" /\ dir0[p] = <<>>) =>
            LET N == Len(emitted[p])
                C == rows_per_file
                log == flushlog[p]
            IN  /\ Len(log) = CeilDiv(N, C)
                /\ Cardinality(DOMAIN files) = CeilDiv(N, C)
                /\ Range(log) = DOMAIN files
                /\ ConcatLog(files, log) = emitted[p]
                /\ \A k \in 1..Len(log) :
                      Len(files[log[k]].rows) = IF k < Len(log) THEN C ELSE N - C * (k - 1)

\* Two full batches and a partial third one have been written.
C1_Witness ==
    \E p \in Pipelines :
        /\ Current(p) /\ pc[p] = "returned" /\ dir0[p] = <<>>
        /\ rows_per_file >= 2
        /\ Len(emitted[p]) = 2 * rows_per_file + 1
        /\ Len(flushlog[p]) = 3

\* The rows scrape_jobs yields for a page: one per listing with a map tag.
RowsOfPage(p, pg) ==
    LET l == pg.doc.listings
        F[j \in 0..Len(l)] ==
            IF j = 0 THEN <<>>
            ELSE IF l[j] = "link" THEN Append(F[j - 1], <<p, pg.s, j>>) ELSE F[j - 1]
    IN  F[Len(l)]

RECURSIVE RowsOfPages(_, _)
RowsOfPages(p, pgs) ==
    IF pgs = <<>> THEN <<>> ELSE RowsOfPage(p, Head(pgs)) \o RowsOfPages(p, Tail(pgs))

RECURSIVE CountListings(_)
CountListings(pgs) ==
    IF pgs = <<>> THEN 0 ELSE Len(Head(pgs).doc.listings) + CountListings(Tail(pgs))

NListings(pg) == Len(pg.doc.listings)

\* Every page fetched so far was parsed and extracted without an exception,
\* and no interrupt is pending in the generator.
CleanRun(p) ==
    /\ \A k \in 1..Len(pages[p]) :
          ~pages[p][k].doc.raises /\ "broken" \notin Range(pages[p][k].doc.listings)
    /\ gen[p].pending = "none"

AllLinks(p) ==
    \A k \in 1..Len(pages[p]) : Range(pages[p][k].doc.listings) \subseteq {"link"}

\* The generator has left its loop by the break of the finally clause, the
\* wrapper was told so (StopIteration).
Exhausted(p) ==
    pc[p] \in {"finally", "returned"} /\ exc[p] = "none" /\ ~skipped[p]

\* The thread is about to fetch a further page.
Fetching(p) == pc[p] \in {"throttle", "fetch", "retry_sleep"}

C3_NoFetchAfterShortPage ==
    \A p \in Pipelines :
        (/\ gen[p].pending = "none"
         /\ \E k \in 1..Len(pages[p]) : NListings(pages[p][k]) < MAX_RESULTS)
            => ~Fetching(p)

\* C4: when the wrapper exits, on whatever path, every row it was handed is
\* in a batch file.
C4_NoRowLost ==
    \A p \in Pipelines :
        (Current(p) /\ Exited(p)) =>
            \A j \in 1..Len(emitted[p]) :
                \E f \in DOMAIN files : emitted[p][j] \in Range(files[f].rows)

\* The retry budget ran out with a buffer that never reached its capacity:
\* the rows were flushed by the finally clause.
C4_Witness ==
    \E p \in Pipelines :
        /\ Current(p) /\ pc[p] = "raised" /\ exc[p] = "RequestException"
        /\ emitted[p] # <<>> /\ Len(emitted[p]) < rows_per_file
        /\ Len(flushlog[p]) = 1

\* C5: when job_links.csv exists and the operator answers N, the exception
\* is raised before anything is fetched or written: the directory is as it
\* was when the scrape was called.
C5_DeclinedRunChangesNothing ==
    \A p \in Pipelines :
        (Current(p) /\ answer[p] = "N") =>
            /\ skipped[p]
            /\ 0 \in DOMAIN dir0[p]
            /\ files = dir0[p]
            /\ flushlog[p] = <<>>
            /\ pages[p] = <<>>
            /\ emitted[p] = <<>>

\* A second domain was declined after the first one had written its batches.
C5_Witness ==
    \E p \in Pipelines :
        /\ Current(p) /\ answer[p] = "N" /\ pc[p] = "returned"
        /\ \E f \in DOMAIN files : files[f] # OldFile(f)

\* C6: retry calls the operation at most max_retries times, sleeps only when
\* another attempt follows, and when attempt k succeeds it returns that
\* response at once (the generator parses it).
C6_AtMostMaxRetriesCalls ==
    \A p \in Pipelines :
        /\ retry_i[p] \in 0..max_retries
        /\ pc[p] \in {"fetch", "retry_sleep"} => retry_i[p] < max_retries
        /\ pc[p] = "parse" =>
              /\ retry_i[p] \in 1..max_retries
              /\ pages[p] # <<>>
              /\ gen[p].res = pages[p][Len(pages[p])].doc

\* Four failures, then the fifth attempt succeeded and its response is the
\* one being parsed.
C6_Witness ==
    \E p \in Pipelines :
        pc[p] = "parse" /\ retry_i[p] = max_retries /\ gen[p].res \in Documents

\* C7: when the last of the max_retries attempts fails too, retry raises that
\* failure: nothing is returned to the generator, and the exception leaving
\* retry is the one of the attempt.
C7_FinalFailurePropagates ==
    /\ [](\A p \in Pipelines :
            exc[p] = "RequestException" =>
                pc[p] = "raised" \/ (pc[p] = "finally" /\ retry_i[p] = max_retries))
    /\ [][\A p \in Pipelines :
            (pc[p] = "fetch" /\ retry_i[p] = max_retries - 1
                /\ retry_i'[p] = max_retries /\ served' = served) =>
                /\ exc'[p] = "RequestException"
                /\ pc'[p] = "finally"
                /\ gen'[p] = gen[p]
                /\ pages'[p] = pages[p]]_vars

\* The fifth attempt has failed and its exception is on its way out.
C7_Witness ==
    \E p \in Pipelines :
        pc[p] = "finally" /\ exc[p] = "RequestException" /\ retry_i[p] = max_retries

\* C8 (as claimed): a domain whose fetch failed for good does not stop the
\* driver, which goes on with the remaining domains.
C8_OtherDomainsContinue ==
    \A p \in Pipelines :
        (pc[p] = "raised" /\ exc[p] = "RequestException") => dpc # "raised"

\* C9: a declined run guard raises nothing to the caller: the wrapped scrape
\* returns, the driver is back in its loop, and it ends its loop only when
\* every domain after the declined one has been called.
C9_DeclineIsNoFailure ==
    \A p \in Pipelines :
        skipped[p] =>
            /\ exc[p] = "none"
            /\ pc[p] \in {"finally", "returned"}
            /\ (pc[p] = "returned" /\ Current(p)) => dpc \in {"loop", "done"}
            /\ (pc[p] = "returned" /\ ~Current(p)) =>
                  \E k \in 1..(dom - 1) : all_domains[k] = p /\ pc[all_domains[k + 1]] # "idle"
            /\ dpc = "done" => \A q \in Range(all_domains) : pc[q] # "idle"

\* A domain is being scraped after the one before it was declined.
C9_Witness ==
    \E k \in 1..(Len(all_domains) - 1) :
        skipped[all_domains[k]] /\ pc[all_domains[k + 1]] = "listing"

\* C10 (as claimed): every flush of a call writes a path that did not exist
\* before: none that was in the directory when the scrape was called, none
\* that an earlier flush of the call wrote.
C10_FlushToFreshPath ==
    \A p \in Pipelines :
        Current(p) =>
            \A k \in 1..Len(flushlog[p]) :
                /\ flushlog[p][k] \notin DOMAIN dir0[p]
                /\ \A j \in 1..(k - 1) : flushlog[p][j] # flushlog[p][k]

\* C11 (as claimed): the final flush runs once and writes nothing that a
\* capacity flush wrote already: a finished call has flushed ceil(N / C)
\* times, and when N is a multiple of C the finally clause writes nothing.
C11_FinalFlushOnce ==
    \A p \in Pipelines :
        (Current(p) /\ Exited(p)) =>
            Len(flushlog[p]) = CeilDiv(Len(emitted[p]), rows_per_file)

\* C12 (as claimed): from an empty directory the batches of a call are named
\* root, root1, root2, ...: the k-th batch written carries index k - 1.
C12_NamesCountFromOne ==
    \A p \in Pipelines :
        (Current(p) /\ dir0[p] = <<>> /\ exc[p] # "KeyboardInterrupt") =>
            \A k \in 1..Len(flushlog[p]) : flushlog[p][k] = k - 1

\* The page fetched last has a listing whose extraction raises (lines 159-160).
ExtractionFailed(p) ==
    /\ pages[p] # <<>>
    /\ ~pages[p][Len(pages[p])].doc.raises
    /\ "broken" \in Range(pages[p][Len(pages[p])].doc.listings)

\* C13 (as claimed): after the extraction of a page raised, the loop has not
\* exited and the offset is unchanged: the fetch that follows is for the same
\* page.
C13_RefetchSamePage ==
    \A p \in Pipelines :
        (Current(p) /\ ExtractionFailed(p) /\ gen[p].pending = "none") =>
            /\ ~Exhausted(p)
            /\ Fetching(p) => gen[p].payload_s = pages[p][Len(pages[p])].s

\* Some page fetched by the call could not be parsed, or a listing of it
\* could not be extracted.
BadDocument(p) ==
    \E k \in 1..Len(pages[p]) :
        pages[p][k].doc.raises \/ "broken" \in Range(pages[p][k].doc.listings)

\* C14 (as claimed): a document that cannot be parsed, the first page of a
\* domain included, raises nothing out of the scrape: neither the call nor
\* the driver's loop over the domains is aborted by it.
C14_BadDocumentNeverAborts ==
    \A p \in Pipelines :
        (Current(p) /\ BadDocument(p) /\ gen[p].pending = "none"
            /\ exc[p] \notin {"RequestException", "KeyboardInterrupt"}) =>
                /\ exc[p] = "none"
                /\ pc[p] # "raised"
                /\ dpc # "raised"

\* The rows scrape_job_details is to yield for the files read in this order:
\* one for every link whose page has its title and its map.
RECURSIVE DetailsOfRows(_)
DetailsOfRows(rows) ==
    IF rows = <<>> THEN <<>>
    ELSE LET r == scrape_single_job_details(LinkOf(Head(rows)), detail_page[LinkOf(Head(rows))])
         IN  (IF r = NoRow THEN <<>> ELSE <<r>>) \o DetailsOfRows(Tail(rows))

RECURSIVE DetailsOfFiles(_)
DetailsOfFiles(order) ==
    IF order = <<>> THEN <<>>
    ELSE DetailsOfRows(files[Head(order)].rows) \o DetailsOfFiles(Tail(order))

\* C15 (as claimed): a finished scrape_job_details that was not declined has
\* raised nothing, and the records it emitted are those of the job links
\* whose pages have all required fields, in input order.
C15_DetailsOfCompletePages ==
    (details.pc \in {"returned", "raised"} /\ ~details.skipped
        /\ details.exc # "KeyboardInterrupt") =>
            /\ details.exc = "none"
            /\ details.emitted = DetailsOfFiles(details.order)

\* C16 (as claimed): when job_links.csv exists as the scrape is called and
\* nobody approved (the operator did not answer y, or nobody was asked), the
\* call goes no further than the run guard: nothing is fetched.
C16_NoRunWithoutApproval ==
    \A p \in Pipelines :
        (Current(p) /\ 0 \in DOMAIN dir0[p] /\ answer[p] # "y") =>
            /\ pc[p] \in {"open", "prompt", "finally", "returned", "raised"}
            /\ pages[p] = <<>>

\* C17 (as claimed): an empty answer at the run guard's prompt is a decline:
\* once the operator has answered with nothing, the prompt is over and the
\* run is skipped.
C17_EmptyAnswerDeclines ==
    \A p \in Pipelines :
        (asked[p] >= 1 /\ answer[p] = "") => (skipped[p] /\ pc[p] # "prompt")

\* C18 (as claimed): two scrapes running at once do not interfere: no
\* pipeline flushes to a path another one flushed to, and every row a
\* finished pipeline emitted is in some batch file.
C18_PipelinesDoNotInterfere ==
    \A p \in Pipelines :
        /\ \A q \in Pipelines \ {p} : Range(flushlog[p]) \cap Range(flushlog[q]) = {}
        /\ Exited(p) =>
              \A j \in 1..Len(emitted[p]) :
                  \E f \in DOMAIN files : emitted[p][j] \in Range(files[f].rows)

\* C19 (as claimed): the decision to stop or to go on is taken on the page
\* fetched last: the run is exhausted only when that page had fewer than
\* MAX_RESULTS listings (none, for a page that could not be parsed), and a
\* further fetch is under way only when it had MAX_RESULTS.
C19_DecisionOnLastPage ==
    \A p \in Pipelines :
        (Current(p) /\ gen[p].pending = "none" /\ pages[p] # <<>>) =>
            /\ Exhausted(p) => NListings(pages[p][Len(pages[p])]) < MAX_RESULTS
            /\ Fetching(p) => NListings(pages[p][Len(pages[p])]) = MAX_RESULTS

\* The rows extracted from a page before the extraction ends: none when the
\* page cannot be parsed, those before a listing whose extraction raises.
ExtractedOfPage(p, pg) ==
    LET l == pg.doc.listings
        F[j \in 0..Len(l)] ==
            IF j = 0 THEN [rows |-> <<>>, ok |-> ~pg.doc.raises]
            ELSE IF ~F[j - 1].ok \/ l[j] = "broken" THEN [rows |-> F[j - 1].rows, ok |-> FALSE]
            ELSE IF l[j] = "link"
                 THEN [rows |-> Append(F[j - 1].rows, <<p, pg.s, j>>), ok |-> TRUE]
                 ELSE F[j - 1]
    IN  F[Len(l)].rows

RECURSIVE ExtractedOfPages(_, _)
ExtractedOfPages(p, pgs) ==
    IF pgs = <<>> THEN <<>>
    ELSE ExtractedOfPage(p, Head(pgs)) \o ExtractedOfPages(p, Tail(pgs))

\* The rows in the wrapper's buffer.
Buffered(w) == WrittenRows(w.rows)

GenAlive == {"fetch", "retry_sleep", "parse", "listing", "g_finally", "throttle",
             "save", "next", "reset", "finally"}

\* C21 (as claimed): during a run the offset grows by MAX_RESULTS in the step
\* that closes a page which had MAX_RESULTS listings, and is unchanged in
\* every other step: it never decreases and is never reset (steps of a run
\* that no interrupt has hit).
C21_OffsetGrowsOnFullPageOnly ==
    [][\A p \in Pipelines :
        (pc[p] \in GenAlive /\ pc'[p] \in GenAlive /\ gen[p].pending = "none") =>
            gen'[p].payload_s =
                IF pc[p] = "g_finally" /\ pc'[p] # "g_finally"
                    /\ NListings(pages[p][Len(pages[p])]) = MAX_RESULTS
                THEN gen[p].payload_s + MAX_RESULTS
                ELSE gen[p].payload_s]_vars

\* C22 (as claimed): the first fetch of a run is issued with offset 0.
C22_FirstOffsetZero ==
    \A p \in Pipelines :
        /\ (pc[p] = "fetch" /\ pages[p] = <<>> /\ Current(p)) => gen[p].payload_s = 0
        /\ pages[p] # <<>> => pages[p][1].s = 0

\* C23 (as claimed): a page fetch after the first is started only by leaving
\* the throttling sleep, so exactly one sleep lies between two consecutive
\* fetches; the sleep is entered from the end of a page's processing with the
\* offset not yet advanced, the offset is advanced when the sleep is over and
\* the fetch follows; a page with fewer than MAX_RESULTS listings is followed
\* by no sleep.
C23_SleepThenAdvanceThenFetch ==
    [][\A p \in Pipelines :
        /\ (pc'[p] = "fetch" /\ pc[p] \notin {"fetch", "retry_sleep"}) =>
              \/ pc[p] = "throttle" /\ pages[p] # <<>>
              \/ pc[p] \in {"open", "prompt"} /\ pages[p] = <<>>
        /\ (pc'[p] = "throttle" /\ pc[p] # "throttle") =>
              /\ pc[p] = "g_finally"
              /\ NListings(pages[p][Len(pages[p])]) = MAX_RESULTS
              /\ gen'[p].payload_s = gen[p].payload_s
        /\ (pc[p] = "throttle" /\ pc'[p] = "fetch") =>
              gen'[p].payload_s = gen[p].payload_s + MAX_RESULTS]_vars

\* C24: retry sleeps exactly once after each failed attempt that another
\* attempt follows, and at no other moment: the sleep is entered only by a
\* failed attempt numbered 1 .. max_retries - 1, every such attempt enters
\* it, the sleep is left only into the next attempt (or by an interrupt), a
\* successful attempt and the failed attempt number max_retries are followed
\* by no sleep.  A call whose attempts all fail sleeps max_retries - 1 times.
C24_SleepBetweenAttemptsOnly ==
    /\ [](\A p \in Pipelines :
            pc[p] = "retry_sleep" => retry_i[p] \in 1..(max_retries - 1))
    /\ [][\A p \in Pipelines :
            /\ (pc'[p] = "retry_sleep" /\ pc[p] # "retry_sleep") =>
                  /\ pc[p] = "fetch"
                  /\ retry_i'[p] = retry_i[p] + 1
                  /\ pages'[p] = pages[p]
            /\ (pc[p] = "fetch" /\ retry_i'[p] = retry_i[p] + 1 /\ pages'[p] = pages[p]) =>
                  IF retry_i'[p] < max_retries
                  THEN pc'[p] = "retry_sleep"
                  ELSE pc'[p] = "finally" /\ exc'[p] = "RequestException"
            /\ (pc[p] = "fetch" /\ pages'[p] # pages[p]) => pc'[p] # "retry_sleep"
            /\ (pc[p] = "retry_sleep" /\ pc'[p] # "retry_sleep") =>
                  /\ retry_i'[p] = retry_i[p]
                  /\ \/ pc'[p] = "fetch"
                     \/ pc'[p] = "finally" /\ exc'[p] = "KeyboardInterrupt"]_vars

\* The sleep after the last failed attempt that another attempt follows.
C24_Witness ==
    \E p \in Pipelines : pc[p] = "retry_sleep" /\ retry_i[p] = max_retries - 1

\* C25: every batch file a call has written holds the header row and between
\* 1 and rows_per_file data rows, every batch but the last one written holds
\* exactly rows_per_file, and the buffer never holds more than rows_per_file
\* rows.
C25_BatchSizes ==
    \A p \in Pipelines :
        /\ wrapper[p].rows_counter <= rows_per_file
        /\ Len(Buffered(wrapper[p])) <= rows_per_file
        /\ \A k \in 1..Len(flushlog[p]) :
              /\ flushlog[p][k] \in DOMAIN files
              /\ files[flushlog[p][k]].header = Header
              /\ Len(files[flushlog[p][k]].rows) \in 1..rows_per_file
              /\ k < Len(flushlog[p]) => Len(files[flushlog[p][k]].rows) = rows_per_file

\* A finished call that wrote a full batch and then a partial one.
C25_Witness ==
    \E p \in Pipelines :
        /\ Exited(p) /\ rows_per_file = MaxRowsPerFile
        /\ Len(flushlog[p]) = 2 /\ flushlog[p][1] # flushlog[p][2]
        /\ Len(files[flushlog[p][1]].rows) = rows_per_file
        /\ Len(files[flushlog[p][2]].rows) < rows_per_file

\* C26: whatever files the directory holds, the index get_next_csv_filename
\* returns names no existing file at the moment it is returned, the indices
\* returned to one call of the wrapper are strictly increasing, and the search
\* ends after at most one candidate per existing file and one more.
C26_FreshIncreasingIndices ==
    [][\A p \in Pipelines :
        /\ (pc[p] \in {"open", "prompt"} /\ pc'[p] = "fetch") =>
              /\ wrapper'[p].filename >= 0
              /\ wrapper'[p].filename \notin DOMAIN files
              /\ wrapper'[p].filename <= Cardinality(DOMAIN files) + 1
        /\ (pc[p] = "next" /\ pc'[p] = "reset") =>
              /\ wrapper'[p].filename > wrapper[p].filename
              /\ wrapper'[p].filename \notin DOMAIN files
              /\ wrapper'[p].filename
                    <= wrapper[p].file_index + Cardinality(DOMAIN files) + 1]_vars

\* job_links.csv existed: the first request skipped it and index 1, the
\* second skipped the batch just written.
C26_Witness ==
    \E p \in Pipelines :
        /\ pc[p] = "reset" /\ 0 \in DOMAIN dir0[p]
        /\ flushlog[p] = <<2>> /\ wrapper[p].filename = 3

\* The pages of a run that held MAX_RESULTS listings.
RECURSIVE FullPages(_)
FullPages(pgs) ==
    IF pgs = <<>> THEN 0
    ELSE (IF NListings(Head(pgs)) = MAX_RESULTS THEN 1 ELSE 0) + FullPages(Tail(pgs))

\* C27 (as claimed), in the form a finite run refutes: a run whose fetches
\* succeed ends once the remote has no full page left, so it never fetches
\* more than one page beyond the full pages it received, whether the other
\* pages are short, empty or unparseable.
C27_EndsAfterLastFullPage ==
    \A p \in Pipelines :
        (Current(p) /\ gen[p].pending = "none" /\ exc[p] = "none") =>
            Len(pages[p]) <= FullPages(pages[p]) + 1

\* C28 (as claimed): the run guard reacts only to a job_links.csv an earlier
\* run left: when a domain of a scrape_all_jobs run is prompted for or
\* skipped, the job_links.csv found at its call is a file that was there
\* before the run, not one an earlier domain of this run wrote.
C28_GuardIgnoresOwnRun ==
    \A p \in Pipelines :
        (Current(p) /\ (pc[p] = "prompt" \/ skipped[p])) =>
            /\ 0 \in DOMAIN dir0[p]
            /\ dir0[p][0] = OldFile(0)

\* C29: the run guard raises only at the first filename request of a call,
\* before the wrapped method has started: at that moment nothing has been
\* fetched, yielded, buffered or written and no sleep has begun, and it stays
\* so for the skipped call; a later filename request never raises, whatever
\* the operator would answer.
C29_GuardOnlyAtFirstRequest ==
    /\ [](\A p \in Pipelines :
            /\ wrapper[p].filename # IntensiveOpException
            /\ (Current(p) /\ skipped[p]) =>
                  /\ pages[p] = <<>> /\ emitted[p] = <<>> /\ flushlog[p] = <<>>
                  /\ pc[p] \in {"finally", "returned"})
    /\ [][\A p \in Pipelines :
            (skipped'[p] /\ ~skipped[p]) =>
                /\ pc[p] \in {"open", "prompt"}
                /\ wrapper[p].file_index = 0 /\ wrapper[p].rows_counter = 0
                /\ gen[p] = IdleGen /\ retry_i[p] = 0
                /\ pages[p] = <<>> /\ emitted[p] = <<>>]_vars

\* An interactive call the operator approved asks for its second filename
\* while the candidate exists: no prompt, the next index is taken.
C29_Witness ==
    \E p \in Pipelines :
        /\ is_interactive /\ answer[p] = "y" /\ pc[p] = "reset"
        /\ wrapper[p].file_index = 2 /\ wrapper[p].filename = 3
        /\ 2 \in DOMAIN files

\* C30: run raises ValueError before it calls any scrape method when one of
\* the requested types is no scrape type; otherwise it calls the requested
\* types (all scrape types when none is requested) in the order given, one
\* at a time, each after the one before has returned, and it returns only
\* when all of them have been called.
C30_RunValidatesThenRunsInOrder ==
    LET req == run.requested
        none_requested == ~run.given \/ req = <<>>
        invalid == /\ ~none_requested
                   /\ \E k \in DOMAIN req :
                         \A j \in DOMAIN scrape_types : req[k] # scrape_types[j]
        plan == IF none_requested THEN scrape_types ELSE req
    IN  run.pc # "idle" =>
          IF invalid
          THEN /\ run.started = <<>>
               /\ run.pc \in {"init", "raised"}
               /\ run.pc = "raised" => run.exc = "ValueError"
          ELSE /\ run.exc # "ValueError"
               /\ Len(run.started) <= Len(plan)
               /\ run.started = SubSeq(plan, 1, Len(run.started))
               /\ Len(run.started) =
                     IF run.pc \in {"calling", "raised"} THEN run.i + 1 ELSE run.i
               /\ run.pc = "returned" => run.started = plan

\* A valid type followed by an invalid one: ValueError, nothing was called.
C30_Witness ==
    /\ run.pc = "raised" /\ run.exc = "ValueError"
    /\ run.requested = <<"scrape_domains", "scrape_jobs">>
    /\ run.started = <<>>

\* C31 (as claimed): after a 401 and the token refresh it triggers, poll calls
\* the API only once more, so a poll makes at most poll_retries + 1 API
\* calls, whatever the API answers.
C31_OneCallAfterRefresh ==
    /\ poll.after_refresh <= 1
    /\ poll.calls <= poll_retries + 1

====
